---------------------------- MODULE Spec2Model ----------------------------
(***************************************************************************)
(* A model of src/model.py: the building blocks of a Diffusion            *)
(* Transformer (TimestepEmbedder, LabelEmbedder, Attention,               *)
(* AttentionPerceptron, DiffusionTransformer, FinalLayer).                *)
(*                                                                         *)
(* Every module of the source is a pure tensor transform, so each one is  *)
(* modelled as a small state machine: Init is the module as its           *)
(* constructor leaves it together with an input drawn from bounded sets,  *)
(* and one action per call applies the transform.  One specification per  *)
(* module keeps the state spaces apart.                                    *)
(*                                                                         *)
(* Tensors are records [shape, data] holding the contiguous (row-major)   *)
(* buffer, so that view / permute / contiguous are the index maps the     *)
(* source performs.  Numbers are integers; the real-valued scalar         *)
(* functions of the source (SiLU, GELU, exp, sqrt) are taken on the       *)
(* integer grid as stated at each definition.                             *)
(***************************************************************************)
EXTENDS Integers, Sequences, FiniteSets, TLC

VARIABLES
    pc,         \* position of the driver: which call has been made
    timestep,   \* TimestepEmbedder: configuration, input, results
    label,      \* LabelEmbedder: configuration, table size, inputs, results
    attention,  \* Attention: configuration, weights, inputs, results
    block,      \* DiffusionTransformer: weights, inputs, results
    final       \* FinalLayer: weights, inputs, results

vars == <<pc, timestep, label, attention, block, final>>

\* A module that the specification at hand does not exercise.
Unused == [kind |-> "unused"]

(***************************************************************************)
(* Bounds of the model.                                                    *)
(***************************************************************************)
MaxBatch == 2       \* batch sizes 1..MaxBatch
MaxFreq == 5        \* frequency_embedding_size 1..MaxFreq
MaxHidden == 2      \* timestep / label hidden sizes 1..MaxHidden
MaxClasses == 3     \* num_classes 1..MaxClasses
ProbUnits == 4      \* probabilities and draws count in units of 1/ProbUnits

\* dropout_prob 0, 1/ProbUnits, 2/ProbUnits and 1; torch.rand draws from
\* [0, 1).
DropProbs == {0, 1, 2, ProbUnits}
Draws == 0 .. (ProbUnits - 1)

\* All sequences over S of length exactly n.
SeqsOf(S, n) == [1..n -> S]

Min2(a, b) == IF a < b THEN a ELSE b

(***************************************************************************)
(* TimestepEmbedder (src/model.py 45-99)                                   *)
(***************************************************************************)

\* One column of the frequency embedding, for one timestep t: cos or sin of
\* t * frequency[i], or the padding zero.  The trigonometric value itself is
\* kept symbolic; frequency[i] = exp(-log(max_period) * i / half).
Column(fn, t, i) == [fn |-> fn, t |-> t, i |-> i]

\* tensor[:, :n] on one row: the first n columns, fewer if the row is shorter.
SliceCols(row, n) == SubSeq(row, 1, Min2(n, Len(row)))

\* zeros_like(rows): same shape, every element the zero column.
ZerosLikeRow(row) == [j \in 1..Len(row) |-> Column("zero", 0, 0)]

\* time_stepper on one timestep t: the row of the embedding for t.
time_stepper_row(t, embedding_size) ==
    LET half == embedding_size \div 2
        cosines == [i \in 1..half |-> Column("cos", t, i - 1)]
        sines == [i \in 1..half |-> Column("sin", t, i - 1)]
        embedding == cosines \o sines
    IN  IF embedding_size % 2 # 0
        THEN embedding \o ZerosLikeRow(SliceCols(embedding, 1))
        ELSE embedding

\* time_stepper(tensor, embedding_size): one row per timestep of the batch.
time_stepper(tensor, embedding_size) ==
    [b \in 1..Len(tensor) |-> time_stepper_row(tensor[b], embedding_size)]

\* Number of feature columns of a [B, cols] tensor given as a sequence of rows.
Cols(rows) == Len(rows[1])

\* nn.Linear(in_features, out_features) applied to a [B, cols] input, at the
\* level of shapes: the matrix product needs cols = in_features.
LinearShape(rows, in_features, out_features) ==
    IF Cols(rows) = in_features
    THEN [kind |-> "tensor", shape |-> <<Len(rows), out_features>>]
    ELSE [kind |-> "RuntimeError", shape |-> <<Len(rows), Cols(rows)>>]

\* TimestepEmbedder.forward: time_stepper, then Linear(F, H) -> SiLU ->
\* Linear(H, H); SiLU and the second Linear keep the shape [B, H].
TimestepEmbedder_forward(te, tensor) ==
    LET t_frequency == time_stepper(tensor, te.frequency_embedding_size)
    IN  LinearShape(t_frequency, te.frequency_embedding_size,
                    te.timestep_hidden_size)

TimestepInit ==
    \E F \in 1..MaxFreq, H \in 1..MaxHidden, B \in 1..MaxBatch :
      \E tensor \in SeqsOf(0..1, B) :
        timestep = [kind |-> "TimestepEmbedder",
                    frequency_embedding_size |-> F,
                    timestep_hidden_size |-> H,
                    tensor |-> tensor,
                    t_frequency |-> <<>>,
                    t_embedding |-> Unused]

\* A direct call of the static method time_stepper.
CallTimeStepper ==
    /\ pc = "constructed"
    /\ timestep.kind = "TimestepEmbedder"
    /\ timestep' = [timestep EXCEPT !.t_frequency =
                       time_stepper(timestep.tensor,
                                    timestep.frequency_embedding_size)]
    /\ pc' = "time_stepper"
    /\ UNCHANGED <<label, attention, block, final>>

\* A call of TimestepEmbedder.forward.
CallTimestepForward ==
    /\ pc \in {"constructed", "time_stepper"}
    /\ timestep.kind = "TimestepEmbedder"
    /\ timestep' = [timestep EXCEPT
                       !.t_frequency = time_stepper(timestep.tensor,
                                          timestep.frequency_embedding_size),
                       !.t_embedding = TimestepEmbedder_forward(timestep,
                                          timestep.tensor)]
    /\ pc' = "forward"
    /\ UNCHANGED <<label, attention, block, final>>

InitTimestep ==
    /\ pc = "constructed"
    /\ TimestepInit
    /\ label = Unused /\ attention = Unused /\ block = Unused /\ final = Unused

NextTimestep == CallTimeStepper \/ CallTimestepForward

SpecTimestep == InitTimestep /\ [][NextTimestep]_vars

(***************************************************************************)
(* LabelEmbedder (src/model.py 103-144)                                    *)
(***************************************************************************)

\* Python's bool-as-int in num_classes + use_config_embedding.
BoolToInt(b) == IF b THEN 1 ELSE 0

\* An embedding table without the extra row for the dropped label.
EmbeddingRows_no_extra_row(num_classes, dropout_prob) == num_classes

\* Rows of nn.Embedding(num_classes + use_config_embedding, hidden_size).
EmbeddingRows(num_classes, dropout_prob) ==
    LET use_config_embedding == dropout_prob > 0
    IN  num_classes + BoolToInt(use_config_embedding)

\* A token_dropper that shares the first sample's draw across the batch.
token_dropper_shared_draw(le, labels, rand) ==
    [b \in 1..Len(labels) |->
        IF rand[1] < le.dropout_prob THEN le.num_classes ELSE labels[b]]

\* token_dropper: drop_id = rand(B) < dropout_prob, then
\* where(drop_id, num_classes, labels), sample by sample.
token_dropper(le, labels, rand) ==
    [b \in 1..Len(labels) |->
        LET drop_id == rand[b] < le.dropout_prob
        IN  IF drop_id THEN le.num_classes ELSE labels[b]]

\* embedding_table(labels): row labels[b] of the table for each sample; an
\* index outside the table is an IndexError.  Row r of the table is the
\* learned vector of that row, named by r.
EmbeddingLookup(rows, labels) ==
    IF \A b \in 1..Len(labels) : labels[b] >= 0 /\ labels[b] < rows
    THEN [kind |-> "tensor", data |-> [b \in 1..Len(labels) |-> labels[b]]]
    ELSE [kind |-> "IndexError", data |-> <<>>]

\* The label indices LabelEmbedder.forward looks up.
LabelEmbedder_indices(le, labels, rand) ==
    LET use_dropout == le.dropout_prob > 0
    IN  IF use_dropout THEN token_dropper(le, labels, rand) ELSE labels

\* LabelEmbedder.forward.
LabelEmbedder_forward(le, labels, rand) ==
    EmbeddingLookup(le.rows, LabelEmbedder_indices(le, labels, rand))

LabelInit ==
    \E nc \in 1..MaxClasses, p \in DropProbs, B \in 1..MaxBatch :
      \E labels \in SeqsOf(0..(nc - 1), B) :
        label = [kind |-> "LabelEmbedder",
                 num_classes |-> nc,
                 dropout_prob |-> p,
                 rows |-> EmbeddingRows(nc, p),
                 labels |-> labels,
                 earlier |-> <<>>,
                 call |-> Unused]

\* A call of LabelEmbedder.forward on the batch of labels, the first or the
\* second on the same labels.  torch.rand is drawn only on the dropout
\* path; rand = <<>> records that no draw was made.  The result of the
\* call before is kept in earlier.
CallLabelForward ==
    /\ pc \in {"constructed", "forward"}
    /\ label.kind = "LabelEmbedder"
    /\ \E rand \in (IF label.dropout_prob > 0
                    THEN SeqsOf(Draws, Len(label.labels))
                    ELSE {<<>>}) :
         label' = [label EXCEPT
            !.earlier = IF pc = "constructed" THEN <<>>
                        ELSE <<label.call.embeddings>>,
            !.call = [kind |-> "call",
                      rand |-> rand,
                      indices |-> LabelEmbedder_indices(label, label.labels, rand),
                      embeddings |-> LabelEmbedder_forward(label, label.labels, rand)]]
    /\ pc' = IF pc = "constructed" THEN "forward" ELSE "forward_again"
    /\ UNCHANGED <<timestep, attention, block, final>>

InitLabel ==
    /\ pc = "constructed"
    /\ LabelInit
    /\ timestep = Unused /\ attention = Unused /\ block = Unused /\ final = Unused

NextLabel == CallLabelForward

SpecLabel == InitLabel /\ [][NextLabel]_vars

(***************************************************************************)
(* Tensors: [shape, data], data the contiguous row-major buffer.           *)
(***************************************************************************)

RECURSIVE ProdFrom(_, _)
\* shape[k] * ... * shape[Len(shape)]; 1 past the end.
ProdFrom(shape, k) ==
    IF k > Len(shape) THEN 1 ELSE shape[k] * ProdFrom(shape, k + 1)

Numel(shape) == ProdFrom(shape, 1)

\* A tensor of the given shape over the given buffer, both taken as plain
\* sequences (SubSeq evaluates every element once).
Tensor(shape, data) ==
    [shape |-> SubSeq(shape, 1, Len(shape)),
     data |-> SubSeq(data, 1, Numel(shape))]

\* The multi-index (0-based, one entry per axis) of buffer offset p.
Unflatten(p, shape) ==
    [k \in 1..Len(shape) |-> (p \div ProdFrom(shape, k + 1)) % shape[k]]

RECURSIVE FlattenFrom(_, _, _)
FlattenFrom(idx, shape, k) ==
    IF k > Len(shape) THEN 0
    ELSE idx[k] * ProdFrom(shape, k + 1) + FlattenFrom(idx, shape, k + 1)

\* The buffer offset (0-based) of a multi-index.
Flatten(idx, shape) == FlattenFrom(idx, shape, 1)

\* Element of t at a 0-based multi-index.
At(t, idx) == t.data[Flatten(idx, t.shape) + 1]

\* tensor.view(shape): the same buffer under a new shape; one entry of shape
\* may be -1 and is inferred from the number of elements.
View(t, shape) ==
    LET known == Numel([k \in 1..Len(shape) |->
                          IF shape[k] = -1 THEN 1 ELSE shape[k]])
        full == [k \in 1..Len(shape) |->
                   IF shape[k] = -1 THEN Numel(t.shape) \div known ELSE shape[k]]
    IN  Tensor(full, t.data)

\* tensor.permute(perm).contiguous(): axis i of the result is axis perm[i]
\* of t (axes 0-based as in the source); the buffer is laid out afresh.
Permute(t, perm) ==
    LET shape == [i \in 1..Len(perm) |-> t.shape[perm[i] + 1]]
        Source(idx) == [a \in 1..Len(perm) |->
                          idx[CHOOSE i \in 1..Len(perm) : perm[i] + 1 = a]]
    IN  Tensor(shape,
               [p \in 1..Numel(shape) |-> At(t, Source(Unflatten(p - 1, shape)))])

RECURSIVE SumTo(_, _)
\* f[1] + ... + f[n]
SumTo(f, n) == IF n = 0 THEN 0 ELSE f[n] + SumTo(f, n - 1)

\* nn.Linear with parameters lin = [weight: [out, in], bias: [out]] applied
\* along the last axis of t: y = x W^T + b.
Linear(lin, t) ==
    LET in_features == lin.weight.shape[2]
        out_features == lin.weight.shape[1]
        n == Len(t.shape)
        shape == [k \in 1..n |-> IF k = n THEN out_features ELSE t.shape[k]]
        rows == Numel(t.shape) \div in_features
    IN  Tensor(shape,
               [p \in 1..(rows * out_features) |->
                  LET r == (p - 1) \div out_features
                      o == (p - 1) % out_features
                  IN  SumTo([i \in 1..in_features |->
                               t.data[r * in_features + i]
                               * lin.weight.data[o * in_features + i]],
                            in_features)
                      + lin.bias.data[o + 1]])

\* tensor.transpose(1, 2) of a 3-axis tensor.
Transpose12(t) == Permute(t, <<0, 2, 1>>)

\* torch.bmm(a, b): a is [R, I, K], b is [R, K, J]; the result is [R, I, J].
Bmm(a, b) ==
    LET R == a.shape[1]
        I == a.shape[2]
        K == a.shape[3]
        J == b.shape[3]
        shape == <<R, I, J>>
    IN  Tensor(shape,
               [p \in 1..(R * I * J) |->
                  LET idx == Unflatten(p - 1, shape)
                  IN  SumTo([k \in 1..K |->
                               At(a, <<idx[1], idx[2], k - 1>>)
                               * At(b, <<idx[1], k - 1, idx[3]>>)], K)])

\* Input and parameter values are drawn from a family of integer patterns
\* with values in -1..1, one pattern per seed in 0..5.
Pattern(seed, n) ==
    [i \in 1..n |-> ((i * (1 + (seed % 2)) + (seed \div 2)) % 3) - 1]
Seeds == 0..1

\* The parameters nn.Linear(in, out) is constructed with: some weight
\* [out, in] and bias [out] (the constructor draws them at random).
NewLinear(in_features, out_features, seed) ==
    [weight |-> Tensor(<<out_features, in_features>>,
                       Pattern(seed, out_features * in_features)),
     bias |-> Tensor(<<out_features>>, Pattern(seed + 1, out_features))]

(***************************************************************************)
(* Attention (src/model.py 148-241)                                        *)
(***************************************************************************)
MaxDim == 4         \* attention_dimension 1..MaxDim
MaxHeads == 2       \* attention_heads 1..MaxHeads
MaxTokens == 2      \* sequence lengths 1..MaxTokens
ExpBits == 4        \* fractional bits of the fixed-point exponential

\* An Attention.__init__ without the divisibility assertion.
Attention_init_unchecked(attention_dimension, attention_heads, sq, sk, sv) ==
    LET num_heads == attention_heads
        div_dimension == attention_dimension \div attention_heads
    IN  [kind |-> "Attention",
         attention_dimension |-> attention_dimension,
         attention_heads |-> attention_heads,
         num_heads |-> num_heads,
         div_dimension |-> div_dimension,
         layers |-> {"query_projection", "key_projection", "value_projection"},
         query_projection |->
             NewLinear(attention_dimension, num_heads * div_dimension, sq),
         key_projection |->
             NewLinear(attention_dimension, num_heads * div_dimension, sk),
         value_projection |->
             NewLinear(attention_dimension, num_heads * div_dimension, sv)]

\* Attention.__init__: the assertion comes first; the three projection
\* layers exist only if it passes.
Attention_init(attention_dimension, attention_heads, sq, sk, sv) ==
    IF attention_dimension % attention_heads # 0
    THEN [kind |-> "AssertionError",
          attention_dimension |-> attention_dimension,
          attention_heads |-> attention_heads,
          layers |-> {}]
    ELSE LET num_heads == attention_heads
             div_dimension == attention_dimension \div attention_heads
         IN  [kind |-> "Attention",
              attention_dimension |-> attention_dimension,
              attention_heads |-> attention_heads,
              num_heads |-> num_heads,
              div_dimension |-> div_dimension,
              layers |-> {"query_projection", "key_projection",
                          "value_projection"},
              query_projection |->
                  NewLinear(attention_dimension, num_heads * div_dimension, sq),
              key_projection |->
                  NewLinear(attention_dimension, num_heads * div_dimension, sk),
              value_projection |->
                  NewLinear(attention_dimension, num_heads * div_dimension, sv)]

\* Lines 185-187: the projected query.
ProjectQuery(self, query) == Linear(self.query_projection, query)

\* Lines 188-190: the projected key (the source calls query_projection).
ProjectKey(self, key) == Linear(self.query_projection, key)

\* Lines 191-193: the projected value (the source calls query_projection).
ProjectValue(self, value) == Linear(self.query_projection, value)

\* Lines 185-209 after the projection: view as [B, len, N, D], permute to
\* [N, B, len, D], view as [B*N, len, D].
MergeHeads(self, projected, batch_size) ==
    LET split == View(projected,
                      <<batch_size, -1, self.num_heads, self.div_dimension>>)
        moved == Permute(split, <<2, 0, 1, 3>>)
    IN  View(moved, <<batch_size * self.num_heads, -1, self.div_dimension>>)

\* An element of the score tensor: the dot product v, standing for
\* v / sqrt(div_dimension), or minus infinity.
Score(v) == [neg_inf |-> FALSE, v |-> v]
NegInf == [neg_inf |-> TRUE, v |-> 0]

\* Division of every dot product by sqrt(div_dimension).
DivideBySqrtDim(dots) ==
    Tensor(dots.shape, [p \in 1..Numel(dots.shape) |-> Score(dots.data[p])])

\* Lines 211-213: bmm(query, key^T) / sqrt(div_dimension).
AttentionScore(query, key) == DivideBySqrtDim(Bmm(query, Transpose12(key)))

\* Lines 216-218, 220: mask.unsqueeze(1).repeat(1, num_heads, 1, 1) is
\* [B, N, Q_len, K_len]; it is then viewed with the score tensor's size.
ExpandMask(self, mask, size) ==
    LET B == mask.shape[1]
        shape == <<B, self.num_heads, mask.shape[2], mask.shape[3]>>
        repeated == Tensor(shape,
                      [p \in 1..Numel(shape) |->
                         LET idx == Unflatten(p - 1, shape)
                         IN  At(mask, <<idx[1], idx[3], idx[4]>>)])
    IN  View(repeated, size)

\* Lines 219-221: attention_score.masked_fill_(mask, -inf).
MaskedFill(score, mask) ==
    Tensor(score.shape,
           [p \in 1..Numel(score.shape) |->
              IF mask.data[p] THEN NegInf ELSE score.data[p]])

RECURSIVE Pow2(_)
Pow2(n) == IF n = 0 THEN 1 ELSE 2 * Pow2(n - 1)

RECURSIVE MaxScoreTo(_, _)
\* The largest finite score among row[1..n]; row has one.
MaxScoreTo(row, n) ==
    IF n = 0 THEN -1
    ELSE LET rest == MaxScoreTo(row, n - 1)
         IN  IF row[n].neg_inf THEN rest
             ELSE IF rest = -1 THEN n
             ELSE IF row[n].v > row[rest].v THEN n ELSE rest

\* exp(x - max) in fixed point with ExpBits fractional bits and base 2 in
\* place of e: 2^ExpBits at the maximum, halved per unit below it, flushed
\* to 0 below one unit of the grid, and 0 for minus infinity.
ExpFixed(e, max) ==
    IF e.neg_inf THEN 0
    ELSE IF max - e.v > ExpBits THEN 0
    ELSE Pow2(ExpBits - (max - e.v))

\* Line 223: softmax over the last axis.  A weight is the exact fraction
\* num / den of the fixed-point exponentials of its row.
Softmax(score) ==
    LET J == score.shape[3]
        Row(p) == [j \in 1..J |-> score.data[((p - 1) \div J) * J + j]]
        Exps(p) == LET row == Row(p)
                       max == row[MaxScoreTo(row, J)].v
                   IN  [j \in 1..J |-> ExpFixed(row[j], max)]
    IN  Tensor(score.shape,
               [p \in 1..Numel(score.shape) |->
                  LET exps == Exps(p)
                  IN  [num |-> exps[((p - 1) % J) + 1], den |-> SumTo(exps, J)]])

\* Line 224: bmm(attention_matrix, value), rounded down to the integer grid.
WeightedBmm(weights, value) ==
    LET R == weights.shape[1]
        I == weights.shape[2]
        J == weights.shape[3]
        D == value.shape[3]
        shape == <<R, I, D>>
    IN  Tensor(shape,
               [p \in 1..(R * I * D) |->
                  LET idx == Unflatten(p - 1, shape)
                      den == At(weights, <<idx[1], idx[2], 0>>).den
                  IN  SumTo([j \in 1..J |->
                               At(weights, <<idx[1], idx[2], j - 1>>).num
                               * At(value, <<idx[1], j - 1, idx[3]>>)], J)
                      \div den])

\* An un-merge that takes the leading axis as [B, N] instead of [N, B].
UnmergeHeads_batch_major(self, context, batch_size) ==
    LET split == View(context,
                      <<batch_size, self.num_heads, -1, self.div_dimension>>)
        moved == Permute(split, <<0, 2, 1, 3>>)
    IN  View(moved, <<batch_size, -1, self.num_heads * self.div_dimension>>)

\* Lines 225-230: view as [N, B, T, D], permute to [B, T, N, D], view as
\* [B, T, N*D].
UnmergeHeads(self, context, batch_size) ==
    LET split == View(context,
                      <<self.num_heads, batch_size, -1, self.div_dimension>>)
        moved == Permute(split, <<1, 2, 0, 3>>)
    IN  View(moved, <<batch_size, -1, self.num_heads * self.div_dimension>>)

NoMask == [present |-> FALSE]

\* Lines 215-221: the score tensor the softmax is taken of.
ApplyMask(self, score, mask) ==
    IF mask.present
    THEN MaskedFill(score, ExpandMask(self, mask, score.shape))
    ELSE score

\* Attention.forward: every intermediate tensor of the call, with the
\* returned pair (context, attention_matrix).
Attention_forward(self, query, key, value, mask) ==
    LET batch_size == value.shape[1]
        q_proj == ProjectQuery(self, query)
        k_proj == ProjectKey(self, key)
        v_proj == ProjectValue(self, value)
        q == MergeHeads(self, q_proj, batch_size)
        k == MergeHeads(self, k_proj, batch_size)
        v == MergeHeads(self, v_proj, batch_size)
        attention_score == ApplyMask(self, AttentionScore(q, k), mask)
        attention_matrix == Softmax(attention_score)
        merged == WeightedBmm(attention_matrix, v)
    IN  [q_proj |-> q_proj, k_proj |-> k_proj, v_proj |-> v_proj,
         attention_score |-> attention_score,
         attention_matrix |-> attention_matrix,
         context |-> UnmergeHeads(self, merged, batch_size)]

\* Boolean masks [B, T_q, T_k] that leave every query at least one key:
\* causal; per-sample padding of the last b keys of sample b; a mask on the
\* first sample's last key only.
MaskKinds == {"causal", "padding", "first_sample"}
MaskOf(kind, B, Tq, Tk) ==
    LET shape == <<B, Tq, Tk>>
        Masked(b, q, k) ==
            CASE kind = "causal" -> k > q
              [] kind = "padding" -> k > 0 /\ k >= Tk - b
              [] OTHER -> b = 0 /\ k > 0 /\ k = Tk - 1
        t == Tensor(shape,
                    [p \in 1..Numel(shape) |->
                       LET idx == Unflatten(p - 1, shape)
                       IN  Masked(idx[1], idx[2], idx[3])])
    IN  [present |-> TRUE, shape |-> t.shape, data |-> t.data]

\* The constructor call Attention(attention_dimension, attention_heads).
AttentionConstruct ==
    /\ pc = "start"
    /\ attention.kind = "args"
    /\ \E sq \in Seeds, sk \in Seeds, sv \in Seeds :
          attention' = Attention_init(attention.attention_dimension,
                                      attention.attention_heads, sq, sk, sv)
    /\ pc' = IF attention'.kind = "Attention" THEN "constructed" ELSE "raised"
    /\ UNCHANGED <<timestep, label, block, final>>

\* A call attention(query, key, value, mask) on inputs [B, T, dimension].
CallAttentionForward ==
    /\ pc = "constructed"
    /\ attention.kind = "Attention"
    /\ \E B \in 1..MaxBatch, Tq \in 1..MaxTokens, Tk \in 1..MaxTokens,
          seed \in Seeds :
        \E mask \in {NoMask} \cup {MaskOf(m, B, Tq, Tk) : m \in MaskKinds} :
          LET H == attention.attention_dimension
              query == Tensor(<<B, Tq, H>>, Pattern(seed, B * Tq * H))
              key == Tensor(<<B, Tk, H>>, Pattern(seed + 1, B * Tk * H))
              value == Tensor(<<B, Tk, H>>, Pattern(seed + 2, B * Tk * H))
          IN  attention' = [kind |-> "call",
                            self |-> attention,
                            query |-> query, key |-> key, value |-> value,
                            mask |-> mask,
                            out |-> Attention_forward(attention, query, key,
                                                      value, mask)]
    /\ pc' = "forward"
    /\ UNCHANGED <<timestep, label, block, final>>

InitAttention ==
    /\ pc = "start"
    /\ \E dim \in 1..MaxDim, heads \in 1..MaxHeads :
          attention = [kind |-> "args", attention_dimension |-> dim,
                       attention_heads |-> heads]
    /\ timestep = Unused /\ label = Unused /\ block = Unused /\ final = Unused

NextAttention == AttentionConstruct \/ CallAttentionForward

SpecAttention == InitAttention /\ [][NextAttention]_vars

(***************************************************************************)
(* Element-wise layers shared by the block and the final layer             *)
(***************************************************************************)

\* modulate(tensor, shift, scale) =
\*   tensor * (1 + scale.unsqueeze(1)) + shift.unsqueeze(1)
\* with tensor [B, T, H] and shift, scale [B, H].
modulate(tensor, shift, scale) ==
    Tensor(tensor.shape,
           [p \in 1..Numel(tensor.shape) |->
              LET idx == Unflatten(p - 1, tensor.shape)
                  bh == <<idx[1], idx[3]>>
              IN  tensor.data[p] * (1 + At(scale, bh)) + At(shift, bh)])

\* nn.SiLU on the integer grid: x * sigmoid(x) lies within 0.28 of
\* max(x, 0), which is its nearest integer.
SiLU(t) ==
    Tensor(t.shape, [p \in 1..Numel(t.shape) |->
                       IF t.data[p] > 0 THEN t.data[p] ELSE 0])

\* nn.GELU(approximate="tanh") on the integer grid: within 0.17 of
\* max(x, 0), which is its nearest integer.
GELU(t) ==
    Tensor(t.shape, [p \in 1..Numel(t.shape) |->
                       IF t.data[p] > 0 THEN t.data[p] ELSE 0])

\* The integer nearest to sqrt(a / b) for a >= 0, b > 0 and a / b <= h * h,
\* a half rounding down (the eps > 0 of LayerNorm keeps the quotient below
\* the tie).
RoundSqrt(a, b, h) ==
    CHOOSE m \in 0..h :
        /\ m = 0 \/ (2 * m - 1) * (2 * m - 1) * b < 4 * a
        /\ ~((2 * m + 1) * (2 * m + 1) * b < 4 * a)

\* nn.LayerNorm over the last axis, with its affine parameters as
\* constructed (weight 1, bias 0) or absent: (x - mean) / sqrt(var + eps),
\* rounded to the nearest integer.  With d_i = H * x_i - sum(x) this is
\* d_i * sqrt(H / sum(d^2)), and 0 for a constant row.
LayerNorm(t) ==
    LET H == t.shape[Len(t.shape)]
    IN  Tensor(t.shape,
               [p \in 1..Numel(t.shape) |->
                  LET r == (p - 1) \div H
                      row == [j \in 1..H |-> t.data[r * H + j]]
                      total == SumTo(row, H)
                      d == [j \in 1..H |-> H * row[j] - total]
                      di == d[((p - 1) % H) + 1]
                      sq == SumTo([j \in 1..H |-> d[j] * d[j]], H)
                  IN  IF sq = 0 THEN 0
                      ELSE IF di < 0 THEN -RoundSqrt(H * di * di, sq, H)
                      ELSE RoundSqrt(H * di * di, sq, H)])

\* tensor.chunk(chunks, dim=1)[k] of a [B, chunks * H] tensor (k 0-based).
Chunk(t, chunks, k) ==
    LET B == t.shape[1]
        H == t.shape[2] \div chunks
    IN  Tensor(<<B, H>>,
               [p \in 1..(B * H) |->
                  At(t, <<(p - 1) \div H, k * H + ((p - 1) % H)>>)])

\* A residual update that always adds the sub-layer's output.
GatedResidual_ungated(x, gate, y) ==
    Tensor(x.shape, [p \in 1..Numel(x.shape) |-> x.data[p] + y.data[p]])

\* x + gate.unsqueeze(1) * y with x, y [B, T, H] and gate [B, H].
GatedResidual(x, gate, y) ==
    Tensor(x.shape,
           [p \in 1..Numel(x.shape) |->
              LET idx == Unflatten(p - 1, x.shape)
              IN  x.data[p] + At(gate, <<idx[1], idx[3]>>) * y.data[p]])

\* nn.init.constant_(weight, 0) and nn.init.constant_(bias, 0) on a Linear.
ZeroLinear(lin) ==
    [weight |-> Tensor(lin.weight.shape,
                       [p \in 1..Numel(lin.weight.shape) |-> 0]),
     bias |-> Tensor(lin.bias.shape, [p \in 1..Numel(lin.bias.shape) |-> 0])]

AllZero(t) == \A p \in 1..Numel(t.shape) : t.data[p] = 0
IsZeroLinear(lin) == AllZero(lin.weight) /\ AllZero(lin.bias)

(***************************************************************************)
(* AttentionPerceptron (src/model.py 244-289)                              *)
(***************************************************************************)

\* AttentionPerceptron.__init__ with dropout_prob = 0.
AttentionPerceptron_init(in_features, hidden_features, out_features, layer_norm, seed) ==
    [fc1 |-> NewLinear(in_features, hidden_features, seed),
     layer_norm |-> layer_norm,
     fc2 |-> NewLinear(hidden_features, out_features, seed + 1)]

\* AttentionPerceptron.forward: fc1, GELU, drop1, norm, fc2, drop2; the
\* two nn.Dropout(0.0) layers pass their input through.
AttentionPerceptron_forward(self, x) ==
    LET activated == GELU(Linear(self.fc1, x))
        normed == IF self.layer_norm THEN LayerNorm(activated) ELSE activated
    IN  Linear(self.fc2, normed)

(***************************************************************************)
(* DiffusionTransformer (src/model.py 292-353)                             *)
(***************************************************************************)
MaxBlockHidden == 2     \* hidden_size 1..MaxBlockHidden
MaxMlpRatio == 2        \* mlp_ratio 1..MaxMlpRatio

\* DiffusionTransformer.__init__ with attention_embedding_size =
\* hidden_size divisible by attention_heads and perceptron_dropout_rate = 0.
DiffusionTransformer_init(hidden_size, attention_heads, mlp_ratio, perceptron_layernorm, sa, sp, sl) ==
    [kind |-> "DiffusionTransformer",
     hidden_size |-> hidden_size,
     attention |-> Attention_init(hidden_size, attention_heads,
                                  sa, sa + 1, sa + 2),
     perceptron |-> AttentionPerceptron_init(hidden_size,
                        hidden_size * mlp_ratio, hidden_size,
                        perceptron_layernorm, sp),
     adaptiveLN |-> NewLinear(hidden_size, 6 * hidden_size, sl)]

\* The context returned by self.attention(query=t, key=t, value=t)[0].
SelfAttention(self, t) ==
    Attention_forward(self.attention, t, t, t, NoMask).context

\* Line 345: the tensor the MLP residual is added to is x, the block's
\* input.
MlpResidualBase(x, attn_out) == x

\* DiffusionTransformer.forward: the intermediate tensors and the result.
DiffusionTransformer_forward(self, x, c) ==
    LET ada == Linear(self.adaptiveLN, SiLU(c))
        attn_shift == Chunk(ada, 6, 0)
        attn_scale == Chunk(ada, 6, 1)
        attn_gate == Chunk(ada, 6, 2)
        mlp_shift == Chunk(ada, 6, 3)
        mlp_scale == Chunk(ada, 6, 4)
        mlp_gate == Chunk(ada, 6, 5)
        attn_input == modulate(LayerNorm(x), attn_shift, attn_scale)
        attn == SelfAttention(self, attn_input)
        attn_out == GatedResidual(x, attn_gate, attn)
        perceptron_input == modulate(LayerNorm(attn_out), mlp_shift, mlp_scale)
        mlp == AttentionPerceptron_forward(self.perceptron, perceptron_input)
    IN  [attn_gate |-> attn_gate, mlp_gate |-> mlp_gate,
         attn |-> attn, attn_out |-> attn_out, mlp |-> mlp,
         result |-> GatedResidual(MlpResidualBase(x, attn_out), mlp_gate, mlp)]

\* nn.init.constant_ on DiT.adaptiveLN[-1].weight and .bias (lines 445-446).
ZeroInitBlock ==
    /\ pc = "constructed"
    /\ block.kind = "DiffusionTransformer"
    /\ ~IsZeroLinear(block.adaptiveLN)
    /\ block' = [block EXCEPT !.adaptiveLN = ZeroLinear(@)]
    /\ pc' = pc
    /\ UNCHANGED <<timestep, label, attention, final>>

\* A call DiT(x, c) with x [B, T, H] and c [B, H].
CallBlockForward ==
    /\ pc = "constructed"
    /\ block.kind = "DiffusionTransformer"
    /\ \E B \in 1..MaxBatch, T \in 1..MaxTokens, sx \in Seeds :
          LET H == block.hidden_size
              x == Tensor(<<B, T, H>>, Pattern(sx, B * T * H))
              c == Tensor(<<B, H>>, Pattern(sx + 3, B * H))
          IN  block' = [kind |-> "call", self |-> block, x |-> x, c |-> c,
                        out |-> DiffusionTransformer_forward(block, x, c)]
    /\ pc' = "forward"
    /\ UNCHANGED <<timestep, label, attention, final>>

InitBlock ==
    /\ pc = "constructed"
    /\ \E H \in 1..MaxBlockHidden, heads \in 1..MaxHeads,
          ratio \in 1..MaxMlpRatio, ln \in BOOLEAN,
          sa \in Seeds, sp \in Seeds, sl \in Seeds :
          /\ H % heads = 0
          /\ block = DiffusionTransformer_init(H, heads, ratio, ln, sa, sp, sl)
    /\ timestep = Unused /\ label = Unused /\ attention = Unused
    /\ final = Unused

NextBlock == ZeroInitBlock \/ CallBlockForward

SpecBlock == InitBlock /\ [][NextBlock]_vars

(***************************************************************************)
(* FinalLayer (src/model.py 356-382)                                       *)
(***************************************************************************)
MaxPatch == 2       \* patch_size 1..MaxPatch
MaxChannels == 2    \* out_channels 1..MaxChannels

\* FinalLayer.__init__: a non-affine LayerNorm and two nn.Linear layers
\* with the parameters nn.Linear constructs them with.
FinalLayer_init(hidden_size, patch_size, out_channels, s1, s2) ==
    [kind |-> "FinalLayer",
     hidden_size |-> hidden_size,
     patch_size |-> patch_size,
     out_channels |-> out_channels,
     linear |-> NewLinear(hidden_size,
                          patch_size * patch_size * out_channels, s1),
     AdaptiveLN |-> NewLinear(hidden_size, 2 * hidden_size, s2)]

\* A forward that returns the modulated tensor without the projection.
FinalLayer_forward_no_projection(self, x, c) ==
    LET ada == Linear(self.AdaptiveLN, SiLU(c))
    IN  modulate(LayerNorm(x), Chunk(ada, 2, 0), Chunk(ada, 2, 1))

\* FinalLayer.forward.
FinalLayer_forward(self, x, c) ==
    LET ada == Linear(self.AdaptiveLN, SiLU(c))
        shift == Chunk(ada, 2, 0)
        scale == Chunk(ada, 2, 1)
    IN  Linear(self.linear, modulate(LayerNorm(x), shift, scale))

\* The caller's initialization step of lines 457-460: nn.init.constant_ to
\* 0 on the adaLN linear and on the output linear, weight and bias.
ZeroInitFinal ==
    /\ pc = "constructed"
    /\ final.kind = "FinalLayer"
    /\ ~(IsZeroLinear(final.linear) /\ IsZeroLinear(final.AdaptiveLN))
    /\ final' = [final EXCEPT !.linear = ZeroLinear(@),
                              !.AdaptiveLN = ZeroLinear(@)]
    /\ pc' = pc
    /\ UNCHANGED <<timestep, label, attention, block>>

\* A call final(x, c) with x [B, T, H] and c [B, H].
CallFinalForward ==
    /\ pc = "constructed"
    /\ final.kind = "FinalLayer"
    /\ \E B \in 1..MaxBatch, T \in 1..MaxTokens, sx \in Seeds :
          LET H == final.hidden_size
              x == Tensor(<<B, T, H>>, Pattern(sx, B * T * H))
              c == Tensor(<<B, H>>, Pattern(sx + 3, B * H))
          IN  final' = [kind |-> "call", self |-> final, x |-> x, c |-> c,
                        result |-> FinalLayer_forward(final, x, c)]
    /\ pc' = "forward"
    /\ UNCHANGED <<timestep, label, attention, block>>

InitFinal ==
    /\ pc = "constructed"
    /\ \E H \in 1..MaxBlockHidden, P \in 1..MaxPatch, C \in 1..MaxChannels,
          s1 \in Seeds, s2 \in Seeds :
          final = FinalLayer_init(H, P, C, s1, s2)
    /\ timestep = Unused /\ label = Unused /\ attention = Unused
    /\ block = Unused

NextFinal == ZeroInitFinal \/ CallFinalForward

SpecFinal == InitFinal /\ [][NextFinal]_vars

(***************************************************************************)
(* Properties of TimestepEmbedder                                          *)
(***************************************************************************)

\* C6: time_stepper(tensor, F) returns exactly F feature columns for every
\* batch size and every positive F, odd or even, F = 1 included, and
\* consequently TimestepEmbedder.forward returns shape [B, H].
C6_TimeStepperReturnsFColumns ==
    /\ pc \in {"time_stepper", "forward"} =>
          \A b \in 1..Len(timestep.tensor) :
              Len(timestep.t_frequency[b]) = timestep.frequency_embedding_size
    /\ pc = "forward" =>
          /\ timestep.t_embedding.kind = "tensor"
          /\ timestep.t_embedding.shape =
                <<Len(timestep.tensor), timestep.timestep_hidden_size>>

(***************************************************************************)
(* Properties of LabelEmbedder                                             *)
(***************************************************************************)

\* The table lookup of the labels as given, with no substitution.
DirectLookup == [kind |-> "tensor", data |-> label.labels]

\* C7: labels are substituted per sample and only by the dropout rule: with
\* dropout_prob > 0 a sample's label becomes num_classes exactly when that
\* sample's own draw is below dropout_prob and is unchanged otherwise; with
\* dropout_prob = 0 no draw is made, no label is replaced and every call
\* returns the direct table lookup of the labels.
C7_LabelsDroppedPerSample ==
    label.call.kind = "call" =>
        LET call == label.call
        IN  /\ label.dropout_prob > 0 =>
                /\ Len(call.rand) = Len(label.labels)
                /\ \A b \in 1..Len(label.labels) :
                      /\ (call.rand[b] < label.dropout_prob)
                            <=> (call.indices[b] = label.num_classes)
                      /\ ~(call.rand[b] < label.dropout_prob)
                            => (call.indices[b] = label.labels[b])
                /\ call.embeddings.data = call.indices
            /\ label.dropout_prob = 0 =>
                /\ call.rand = <<>>
                /\ call.indices = label.labels
                /\ call.embeddings = DirectLookup
                /\ \A e \in 1..Len(label.earlier) :
                      label.earlier[e] = call.embeddings

\* A batch of two in which the first sample was dropped and the second,
\* whose draw was not below dropout_prob, was kept.
C7_Witness ==
    /\ label.call.kind = "call"
    /\ label.dropout_prob > 0
    /\ Len(label.labels) = 2
    /\ label.call.indices[1] = label.num_classes
    /\ label.call.indices[2] = label.labels[2]
    /\ label.call.rand[2] >= label.dropout_prob

\* C9: the index looked up is always a valid row of the table: the table has
\* num_classes + 1 rows when dropout_prob > 0 and num_classes rows
\* otherwise, every looked-up index is below the number of rows, and the
\* sentinel num_classes is looked up only when the extra row exists.
C9_LookupIndexInTable ==
    /\ label.rows = (IF label.dropout_prob > 0
                     THEN label.num_classes + 1 ELSE label.num_classes)
    /\ label.call.kind = "call" =>
          /\ label.call.embeddings.kind = "tensor"
          /\ \A b \in 1..Len(label.call.indices) :
                /\ label.call.indices[b] >= 0
                /\ label.call.indices[b] < label.rows
                /\ label.call.indices[b] = label.num_classes
                      => label.rows = label.num_classes + 1

\* A call that looked up the sentinel row.
C9_Witness ==
    /\ label.call.kind = "call"
    /\ \E b \in 1..Len(label.labels) :
          label.call.indices[b] = label.num_classes
    /\ label.call.embeddings.kind = "tensor"

(***************************************************************************)
(* Properties of Attention                                                 *)
(***************************************************************************)

\* The module a call was made on, or the constructor's result.
AttentionSelf == IF attention.kind = "call" THEN attention.self ELSE attention

\* The row of the merged [B*N, ., .] tensors that holds head n of sample b
\* (0-based): the merge of lines 195-209 lays heads out head-major.
HeadRow(b, n, B) == n * B + b

\* C1: with a boolean mask [B, T_q, T_k], the weight head n of sample b
\* gives key k for query q is exactly 0 whenever mask[b, q, k] is true, and
\* a position whose mask[b, q, k] is false is not masked through another
\* sample's mask: the mask row is applied to a score row of the same sample.
C1_MaskAppliedToOwnSample ==
    (attention.kind = "call" /\ attention.mask.present) =>
        LET B == attention.mask.shape[1]
            N == attention.self.num_heads
        IN  \A b \in 0..(B - 1), n \in 0..(N - 1),
               q \in 0..(attention.mask.shape[2] - 1),
               k \in 0..(attention.mask.shape[3] - 1) :
              LET r == HeadRow(b, n, B)
              IN  /\ At(attention.mask, <<b, q, k>>) =>
                        At(attention.out.attention_matrix, <<r, q, k>>).num = 0
                  /\ ~At(attention.mask, <<b, q, k>>) =>
                        ~At(attention.out.attention_score, <<r, q, k>>).neg_inf

\* C3: query, key and value go through three independent layers: the query
\* through query_projection, the key through key_projection and the value
\* through value_projection.
C3_IndependentProjections ==
    attention.kind = "call" =>
        /\ attention.out.q_proj =
              Linear(attention.self.query_projection, attention.query)
        /\ attention.out.k_proj =
              Linear(attention.self.key_projection, attention.key)
        /\ attention.out.v_proj =
              Linear(attention.self.value_projection, attention.value)

\* C8: construction with attention_dimension % attention_heads # 0 fails
\* with an assertion error before any projection layer is created; every
\* divisible pair constructs, with num_heads * div_dimension equal to
\* attention_dimension.
C8_ConstructorChecksDivisibility ==
    pc # "start" =>
        LET self == AttentionSelf
        IN  IF self.attention_dimension % self.attention_heads # 0
            THEN self.kind = "AssertionError" /\ self.layers = {}
            ELSE /\ self.kind = "Attention"
                 /\ self.num_heads * self.div_dimension
                       = self.attention_dimension
                 /\ Cardinality(self.layers) = 3

\* A construction that was refused: 3 is not divisible by 2.
C8_Witness ==
    /\ pc = "raised"
    /\ attention.kind = "AssertionError"
    /\ attention.attention_dimension = 3
    /\ attention.attention_heads = 2

\* The slice of a projected [B, T, N*D] tensor that belongs to head n of
\* sample b, as a [1, T, D] batch of one.
HeadSlice(projected, b, n, D) ==
    LET T == projected.shape[2]
        shape == <<1, T, D>>
    IN  Tensor(shape,
               [p \in 1..(T * D) |->
                  LET idx == Unflatten(p - 1, shape)
                  IN  At(projected, <<b, idx[2], n * D + idx[3]>>)])

\* Scaled dot-product attention of one head of one sample alone: its
\* weights and its context.  masked gives the positions set to -inf.
SingleHead(q, k, v, masked) ==
    LET weights == Softmax(MaskedFill(AttentionScore(q, k), masked))
    IN  [weights |-> weights, context |-> WeightedBmm(weights, v)]

\* C10: merging batch and head axes and un-merging them are inverse index
\* maps: context[b, t, n*D + d] is the context of head n of sample b at
\* token t and channel d, the merged row being the same for query, key,
\* value, weights and context; the returned shapes are [B, T, N*D] and
\* [B*N, T, T].
C10_MergeUnmergeInverse ==
    attention.kind = "call" =>
        LET out == attention.out
            B == attention.query.shape[1]
            Tq == attention.query.shape[2]
            Tk == attention.key.shape[2]
            N == attention.self.num_heads
            D == attention.self.div_dimension
        IN  /\ out.context.shape = <<B, Tq, N * D>>
            /\ out.attention_matrix.shape = <<B * N, Tq, Tk>>
            /\ \A b \in 0..(B - 1), n \in 0..(N - 1) :
                  LET r == HeadRow(b, n, B)
                      masked == Tensor(<<1, Tq, Tk>>,
                                  [p \in 1..(Tq * Tk) |->
                                     out.attention_score.data[r * Tq * Tk + p]
                                         .neg_inf])
                      head == SingleHead(HeadSlice(out.q_proj, b, n, D),
                                         HeadSlice(out.k_proj, b, n, D),
                                         HeadSlice(out.v_proj, b, n, D),
                                         masked)
                  IN  /\ \A q \in 0..(Tq - 1), k \in 0..(Tk - 1) :
                            At(out.attention_matrix, <<r, q, k>>)
                               = At(head.weights, <<0, q, k>>)
                      /\ \A t \in 0..(Tq - 1), d \in 0..(D - 1) :
                            At(out.context, <<b, t, n * D + d>>)
                               = At(head.context, <<0, t, d>>)

\* A call with two samples, two heads of two channels and two tokens whose
\* two samples get different contexts.
C10_Witness ==
    /\ attention.kind = "call"
    /\ attention.query.shape = <<2, 2, 4>>
    /\ attention.self.num_heads = 2
    /\ attention.self.div_dimension = 2
    /\ \E t \in 0..1, h \in 0..3 :
          At(attention.out.context, <<0, t, h>>)
             # At(attention.out.context, <<1, t, h>>)
    /\ \E t \in 0..1, d \in 0..1 :
          At(attention.out.context, <<0, t, d>>)
             # At(attention.out.context, <<0, t, 2 + d>>)

(***************************************************************************)
(* Properties of DiffusionTransformer                                      *)
(***************************************************************************)

\* C2: forward returns the sum of both gated residuals: with h = x +
\* attn_gate * Attention(...) the result is h + mlp_gate * Perceptron(...),
\* so the attention residual is present in the returned tensor.
C2_BothResidualsInOutput ==
    block.kind = "call" =>
        /\ block.out.attn_out =
              GatedResidual(block.x, block.out.attn_gate, block.out.attn)
        /\ block.out.result =
              GatedResidual(block.out.attn_out, block.out.mlp_gate,
                            block.out.mlp)

\* C5: with the adaLN projection's weight and bias all zero, forward
\* returns a tensor equal to its input x element for element, for every x
\* and every conditioning c.
C5_ZeroAdaLNIsIdentity ==
    (block.kind = "call" /\ IsZeroLinear(block.self.adaptiveLN)) =>
        /\ block.out.result.shape = block.x.shape
        /\ \A p \in 1..Numel(block.x.shape) :
              block.out.result.data[p] = block.x.data[p]

\* A call on a block with zeroed adaLN, two samples of two tokens, whose
\* attention and MLP sub-layers both produced something other than zero.
C5_Witness ==
    /\ block.kind = "call"
    /\ IsZeroLinear(block.self.adaptiveLN)
    /\ block.x.shape[1] = 2 /\ block.x.shape[2] = 2
    /\ ~AllZero(block.x)
    /\ ~AllZero(block.c)
    /\ ~AllZero(block.out.attn)
    /\ ~AllZero(block.out.mlp)

(***************************************************************************)
(* Properties of FinalLayer                                                *)
(***************************************************************************)

\* The shape [B, T, patch_size * patch_size * out_channels] of a call.
FinalOutputShape ==
    <<final.x.shape[1], final.x.shape[2],
      final.self.patch_size * final.self.patch_size * final.self.out_channels>>

\* C4 as stated: a FinalLayer as returned by its constructor, with no
\* initialization step applied afterwards, returns an all-zero tensor of
\* shape [B, T, patch_size * patch_size * out_channels] on its first call.
C4_ConstructedFinalLayerReturnsZero ==
    final.kind = "call" =>
        /\ final.result.shape = FinalOutputShape
        /\ AllZero(final.result)

\* C4 as amended: once the caller has set the weight and bias of the output
\* linear layer and of the adaLN linear layer to zero, forward returns an
\* all-zero tensor of shape [B, T, patch_size * patch_size * out_channels]
\* for every x and c.
C4_ZeroedFinalLayerReturnsZero ==
    (/\ final.kind = "call"
     /\ IsZeroLinear(final.self.linear)
     /\ IsZeroLinear(final.self.AdaptiveLN)) =>
        /\ final.result.shape = FinalOutputShape
        /\ AllZero(final.result)

\* A call on a zeroed FinalLayer with a batch of two, two tokens and an
\* input and a conditioning that are not zero.
C4_Witness ==
    /\ final.kind = "call"
    /\ IsZeroLinear(final.self.linear)
    /\ IsZeroLinear(final.self.AdaptiveLN)
    /\ final.x.shape[1] = 2 /\ final.x.shape[2] = 2
    /\ ~AllZero(LayerNorm(final.x))
    /\ ~AllZero(final.c)
    /\ AllZero(final.result)

=============================================================================
